---- MODULE Spec2Model ----
(***************************************************************************)
(* FarmeRice backend.                                                      *)
(*                                                                         *)
(* Two state machines are modelled:                                        *)
(*   - the process lifecycle of the server entry point (connectDB, listen, *)
(*     SIGTERM/SIGINT graceful shutdown, uncaughtException and             *)
(*     unhandledRejection handlers, the 3 second forced exit);             *)
(*   - the middleware chain of app.js, as the function Dispatch from a     *)
(*     request, the configuration and the file system to a response.       *)
(* Time is counted in seconds.                                             *)
(***************************************************************************)
EXTENDS Integers, Sequences, FiniteSets

VARIABLES
    server,       \* the `server` handle: "undefined", "listening", "closing", "closed"
    db,           \* mongoose connection: "connecting", "connected", "rejected", "closing", "closed"
    conns,        \* open client connections of the HTTP server
    closeCbs,     \* callbacks registered by server.close(cb), in registration order
    timers,       \* remaining seconds of the armed setTimeout timers
    exitCode,     \* NotExited, or the argument of process.exit
    exitVia,      \* which process.exit call ended the process
    signalled,    \* SIGTERM/SIGINT was received while the HTTP server was running
    crashed,      \* an uncaughtException / unhandledRejection handler has run
    httpCloseCalled, \* server.close has been called
    shutdownCbFired, \* the close callback of shutdownGracefully has run
    dbCloseCalled,   \* mongoose.connection.close has been called
    sinceSignal,  \* seconds since the first signal received while running (saturating)
    sinceClose,   \* seconds since the first shutdown close callback ran (saturating)
    env,          \* process.env.NODE_ENV when app.js is loaded
    clientBuild,  \* the client build directory: "none", "noindex" (no index.html in it), "full"
    files,        \* the files under __dirname (uploads/..., public/...)
    hits,         \* the rate limiter's request count of the client in the current window
    windows,      \* rate-limit windows that have expired
    served,       \* requests handled so far
    req,          \* the request handled in the last step (NoRequest when none was)
    resp          \* the response it got

lifeVars == <<server, db, conns, closeCbs, timers, exitCode, exitVia, signalled,
              crashed, httpCloseCalled, shutdownCbFired, dbCloseCalled,
              sinceSignal, sinceClose>>

routeVars == <<env, clientBuild, files, hits, windows, served, req, resp>>

vars == <<lifeVars, routeVars>>

(***************************************************************************)
(* Bounds of the model and constants of the program.                       *)
(***************************************************************************)
MaxConns == 2
MaxSignals == 2
MaxCrashes == 2
MaxElapsed == 5

MaxRequests == 2
MaxWindows == 1
NearLimit == 1

ForceTimeout == 3
RateLimitProduction == 100
RateLimitOther == 1000

NotExited == 0 - 1

Min(a, b) == IF a < b THEN a ELSE b

CountOf(seq, x) == Cardinality({i \in 1..Len(seq) : seq[i] = x})

(***************************************************************************)
(* Process lifecycle.                                                      *)
(***************************************************************************)
LifeInit ==
    /\ server = "undefined"
    /\ db = "connecting"
    /\ conns = 0
    /\ closeCbs = <<>>
    /\ timers = {}
    /\ exitCode = NotExited
    /\ exitVia = "none"
    /\ signalled = FALSE
    /\ crashed = FALSE
    /\ httpCloseCalled = FALSE
    /\ shutdownCbFired = FALSE
    /\ dbCloseCalled = FALSE
    /\ sinceSignal = 0
    /\ sinceClose = 0

Running == exitCode = NotExited

\* process.exit(code)
Exit(code, via) ==
    /\ exitCode' = code
    /\ exitVia' = via

\* startServer: `await connectDB()` resolved; app.listen, then the two
\* process.on(...) registrations, all in one synchronous run.
ConnectDBResolved ==
    /\ Running
    /\ UNCHANGED routeVars
    /\ db = "connecting"
    /\ db' = "connected"
    /\ server' = "listening"
    /\ UNCHANGED <<conns, closeCbs, timers, exitCode, exitVia, signalled, crashed,
                   httpCloseCalled, shutdownCbFired, dbCloseCalled, sinceSignal,
                   sinceClose>>

\* A startServer that goes on to listen although connectDB rejected.
ConnectDBRejectedContinue ==
    /\ Running
    /\ UNCHANGED routeVars
    /\ db = "connecting"
    /\ db' = "rejected"
    /\ server' = "listening"
    /\ UNCHANGED <<conns, closeCbs, timers, exitCode, exitVia, signalled, crashed,
                   httpCloseCalled, shutdownCbFired, dbCloseCalled, sinceSignal,
                   sinceClose>>

\* startServer: `await connectDB()` rejected; the catch block exits 1.
ConnectDBRejected ==
    /\ Running
    /\ UNCHANGED routeVars
    /\ db = "connecting"
    /\ db' = "rejected"
    /\ Exit(1, "startup")
    /\ UNCHANGED <<server, conns, closeCbs, timers, signalled, crashed,
                   httpCloseCalled, shutdownCbFired, dbCloseCalled, sinceSignal,
                   sinceClose>>

\* A client opens a connection; a server that is closing accepts none.
ClientConnect ==
    /\ Running
    /\ UNCHANGED routeVars
    /\ server = "listening"
    /\ conns < MaxConns
    /\ conns' = conns + 1
    /\ UNCHANGED <<server, db, closeCbs, timers, exitCode, exitVia, signalled,
                   crashed, httpCloseCalled, shutdownCbFired, dbCloseCalled,
                   sinceSignal, sinceClose>>

\* A client connection ends. Nothing in the program makes this happen.
ClientDisconnect ==
    /\ Running
    /\ UNCHANGED routeVars
    /\ conns > 0
    /\ conns' = conns - 1
    /\ UNCHANGED <<server, db, closeCbs, timers, exitCode, exitVia, signalled,
                   crashed, httpCloseCalled, shutdownCbFired, dbCloseCalled,
                   sinceSignal, sinceClose>>

(***************************************************************************)
(* The 'close' event of the HTTP server runs the registered callbacks in   *)
(* registration order.  The callback of shutdownGracefully calls           *)
(* mongoose.connection.close and arms the forced-exit timer; the callback  *)
(* of a crash handler is process.exit(1), after which nothing else runs.   *)
(***************************************************************************)
FirstCrash(cbs) ==
    IF \E i \in 1..Len(cbs) : cbs[i] = "crash"
    THEN CHOOSE i \in 1..Len(cbs) :
            /\ cbs[i] = "crash"
            /\ \A j \in 1..(i - 1) : cbs[j] # "crash"
    ELSE 0

\* Whether a "shutdown" callback runs before the process exits in this emit.
ShutdownRuns(cbs) ==
    LET c == FirstCrash(cbs)
        last == IF c = 0 THEN Len(cbs) ELSE c - 1
    IN \E i \in 1..last : cbs[i] = "shutdown"

\* A forced-exit delay one second longer than the program's.
ForceDelayLate == ForceTimeout + 1

\* The delay of the forced-exit setTimeout, in seconds (3000 ms).
ForceDelay == ForceTimeout

EmitClose(cbs) ==
    /\ closeCbs' = <<>>
    /\ server' = "closed"
    /\ IF ShutdownRuns(cbs)
       THEN /\ shutdownCbFired' = TRUE
            /\ dbCloseCalled' = TRUE
            /\ db' = IF db = "connected" THEN "closing" ELSE db
            /\ timers' = timers \cup {ForceDelay}
       ELSE UNCHANGED <<shutdownCbFired, dbCloseCalled, db, timers>>
    /\ IF FirstCrash(cbs) # 0
       THEN Exit(1, "crash")
       ELSE UNCHANGED <<exitCode, exitVia>>

\* server.close(cb): stop listening, register cb for the 'close' event.  On a
\* server that has already emitted 'close', the event is emitted again on the
\* next tick, before any other event is handled.
ServerClose(cb) ==
    /\ httpCloseCalled' = TRUE
    /\ IF server = "closed"
       THEN EmitClose(<<cb>>)
       ELSE /\ server' = "closing"
            /\ closeCbs' = Append(closeCbs, cb)
            /\ UNCHANGED <<shutdownCbFired, dbCloseCalled, db, timers, exitCode,
                           exitVia>>

\* The HTTP server has stopped listening and its last connection has ended.
ServerCloseEvent ==
    /\ Running
    /\ UNCHANGED routeVars
    /\ server = "closing"
    /\ conns = 0
    /\ EmitClose(closeCbs)
    /\ UNCHANGED <<conns, signalled, crashed, httpCloseCalled, sinceSignal,
                   sinceClose>>

\* shutdownGracefully, the handler of SIGTERM and of SIGINT.
ShutdownGracefully ==
    IF server # "undefined"
    THEN /\ ServerClose("shutdown")
         /\ signalled' = TRUE
    ELSE /\ Exit(0, "noServer")
         /\ UNCHANGED <<server, db, closeCbs, timers, signalled, httpCloseCalled,
                        shutdownCbFired, dbCloseCalled>>

Signal ==
    /\ Running
    /\ UNCHANGED routeVars
    /\ CountOf(closeCbs, "shutdown") + Cardinality(timers) < MaxSignals
    /\ ShutdownGracefully
    /\ UNCHANGED <<conns, crashed, sinceSignal, sinceClose>>

\* A crash handler that exits at once, without server.close.
CrashHandlerNoClose ==
    /\ Exit(1, "crash")
    /\ UNCHANGED <<server, db, closeCbs, timers, httpCloseCalled,
                   shutdownCbFired, dbCloseCalled>>

\* The 'unhandledRejection' and 'uncaughtException' handlers (same body).
\* They are registered after app.listen, so `server` is set when they run.
CrashHandler ==
    IF server # "undefined"
    THEN ServerClose("crash")
    ELSE /\ Exit(1, "crash")
         /\ UNCHANGED <<server, db, closeCbs, timers, httpCloseCalled,
                        shutdownCbFired, dbCloseCalled>>

Crash ==
    /\ Running
    /\ UNCHANGED routeVars
    /\ server # "undefined"
    /\ CountOf(closeCbs, "crash") < MaxCrashes
    /\ CrashHandler
    /\ crashed' = TRUE
    /\ UNCHANGED <<conns, signalled, sinceSignal, sinceClose>>

\* The callback of mongoose.connection.close: the connection has closed.
\* The database decides whether and when this happens.
DBCloseComplete ==
    /\ Running
    /\ UNCHANGED routeVars
    /\ db = "closing"
    /\ db' = "closed"
    /\ Exit(0, "dbClosed")
    /\ UNCHANGED <<server, conns, closeCbs, timers, signalled, crashed,
                   httpCloseCalled, shutdownCbFired, dbCloseCalled, sinceSignal,
                   sinceClose>>

\* A forced exit that reports success.
TimerFireExitZero ==
    /\ Running
    /\ UNCHANGED routeVars
    /\ 0 \in timers
    /\ Exit(0, "forced")
    /\ UNCHANGED <<server, db, conns, closeCbs, timers, signalled, crashed,
                   httpCloseCalled, shutdownCbFired, dbCloseCalled, sinceSignal,
                   sinceClose>>

\* The forced-exit timer is due.
TimerFire ==
    /\ Running
    /\ UNCHANGED routeVars
    /\ 0 \in timers
    /\ Exit(1, "forced")
    /\ UNCHANGED <<server, db, conns, closeCbs, timers, signalled, crashed,
                   httpCloseCalled, shutdownCbFired, dbCloseCalled, sinceSignal,
                   sinceClose>>

\* One second passes.  A due timer runs before more time passes.
Tick ==
    /\ Running
    /\ UNCHANGED routeVars
    /\ 0 \notin timers
    /\ timers' = {t - 1 : t \in timers}
    /\ sinceSignal' = IF signalled THEN Min(sinceSignal + 1, MaxElapsed) ELSE sinceSignal
    /\ sinceClose' = IF shutdownCbFired THEN Min(sinceClose + 1, MaxElapsed) ELSE sinceClose
    /\ UNCHANGED <<server, db, conns, closeCbs, exitCode, exitVia, signalled,
                   crashed, httpCloseCalled, shutdownCbFired, dbCloseCalled>>

(***************************************************************************)
(* app.js: the middleware chain.                                           *)
(*                                                                         *)
(* URLs and file names are strings.  A response is a record: its status,   *)
(* the middleware that produced it (by) and what the body is (kind).  The  *)
(* header setters, sanitizers, body parsers, compression and the loggers   *)
(* pass every request on and are left out.                                 *)
(***************************************************************************)
Envs == {"development", "production"}

Methods == {"GET", "HEAD", "POST", "OPTIONS"}

Paths ==
    {"/", "/health", "/favicon.ico", "/about", "/apidocs",
     "/api/auth/login", "/api/unknown",
     "/uploads/x.jpg", "/uploads/products/x.jpg", "/uploads/products/p1.jpg",
     "/uploads/products/x.txt", "/uploads/products/sub/x.jpg",
     "/uploads/products/X.PNG", "/public/fallback/rice-product.svg",
     "/public/missing.png", "/static/main.js"}

FallbackFile == "public/fallback/rice-product.svg"
SampleFile == "uploads/products/sample-product.jpg"
ProductFile == "uploads/products/p1.jpg"

\* The files of the client build directory that was found.
BuildFiles ==
    CASE clientBuild = "full" -> {"/index.html", "/static/main.js"}
      [] clientBuild = "noindex" -> {"/static/main.js"}
      [] OTHER -> {}

StartsWith(s, p) == Len(s) >= Len(p) /\ SubSeq(s, 1, Len(p)) = p

EndsWith(s, p) == Len(s) >= Len(p) /\ SubSeq(s, Len(s) - Len(p) + 1, Len(s)) = p

LowerChar(c) ==
    CASE c = "A" -> "a" [] c = "B" -> "b" [] c = "C" -> "c" [] c = "D" -> "d"
      [] c = "E" -> "e" [] c = "F" -> "f" [] c = "G" -> "g" [] c = "H" -> "h"
      [] c = "I" -> "i" [] c = "J" -> "j" [] c = "K" -> "k" [] c = "L" -> "l"
      [] c = "M" -> "m" [] c = "N" -> "n" [] c = "O" -> "o" [] c = "P" -> "p"
      [] c = "Q" -> "q" [] c = "R" -> "r" [] c = "S" -> "s" [] c = "T" -> "t"
      [] c = "U" -> "u" [] c = "V" -> "v" [] c = "W" -> "w" [] c = "X" -> "x"
      [] c = "Y" -> "y" [] c = "Z" -> "z" [] OTHER -> c

RECURSIVE ToLower(_)
ToLower(s) == IF s = "" THEN "" ELSE LowerChar(Head(s)) \o ToLower(Tail(s))

\* The non-empty segments of a path, split at "/".
RECURSIVE Split(_, _, _)
Split(s, cur, acc) ==
    IF s = ""
    THEN IF cur = "" THEN acc ELSE Append(acc, cur)
    ELSE IF Head(s) = "/"
         THEN Split(Tail(s), "", IF cur = "" THEN acc ELSE Append(acc, cur))
         ELSE Split(Tail(s), cur \o Head(s), acc)

Segments(path) == Split(path, "", <<>>)

\* app.use(mount, ...): the path is the mount or lies below it (routing is
\* case-insensitive, and a trailing slash of the mount is ignored).
MountMatch(path, mount) ==
    \/ ToLower(path) = mount
    \/ StartsWith(ToLower(path), mount \o "/")

\* The path of a fixed route of app.get(route, ...) (case-insensitive, with or
\* without a trailing slash).
RouteMatch(path, route) ==
    ToLower(path) \in {route, IF route = "/" THEN route ELSE route \o "/"}

\* The path below a mount, as the mounted middleware sees it.
BelowMount(path, mount) == SubSeq(path, Len(mount) + 1, Len(path))

ImageExtensions == {"jpg", "jpeg", "png", "gif", "webp", "svg"}

\* filename.match(/\.(jpg|jpeg|png|gif|webp|svg)$/i)
IsImageName(filename) ==
    \E e \in ImageExtensions : EndsWith(ToLower(filename), "." \o e)

MountedRouters ==
    {"/api/auth", "/api/users", "/api/products", "/api/orders", "/api/inventory",
     "/api/payments", "/api/reviews", "/api/sales", "/api/messages", "/api/tasks",
     "/api/reports", "/api/notifications", "/api/deliveries", "/api/announcements",
     "/api/upload"}

UnderRouter(path) == \E m \in MountedRouters : MountMatch(path, m)

\* '/uploads/:type/:filename' matches and :filename is an image file name.
FallbackImageMatch(path) ==
    LET segs == Segments(path) IN
    /\ Len(segs) >= 3
    /\ ToLower(segs[1]) = "uploads"
    /\ IsImageName(segs[3])

\* What the routes make of each path: the matching above, evaluated once.
PathFacts ==
    [p \in Paths |->
        [underApi |-> MountMatch(p, "/api"),
         underRouter |-> UnderRouter(p),
         underUploads |-> MountMatch(p, "/uploads"),
         uploadsFile |-> "uploads" \o BelowMount(p, "/uploads"),
         fallbackImage |-> FallbackImageMatch(p),
         imageName |-> Segments(p) # <<>> /\ IsImageName(Segments(p)[Len(Segments(p))]),
         underPublic |-> MountMatch(p, "/public"),
         publicFile |-> "public" \o BelowMount(p, "/public"),
         isFavicon |-> RouteMatch(p, "/favicon.ico"),
         isRoot |-> RouteMatch(p, "/"),
         isHealth |-> RouteMatch(p, "/health"),
         apiUrl |-> StartsWith(p, "/api")]]

\* A request: method, path, and whether a sub-router has a route for it.
Requests ==
    {r \in [method : Methods, path : Paths, routed : BOOLEAN] :
        r.routed => PathFacts[r.path].underRouter}

\* app.get(route, ...) serves GET and HEAD.
IsGet(r) == r.method \in {"GET", "HEAD"}

NoRequest == [method |-> "none", path |-> "", routed |-> FALSE]

Response(status, by, kind) == [status |-> status, by |-> by, kind |-> kind]

\* What a middleware that calls next() yields.
Pass == Response(0, "next", "none")

NoResponse == Response(0, "none", "none")

\* ensureUploadDirectories: with no product image on disk, the fallback image,
\* when there is one, is copied to uploads/products/sample-product.jpg.
EnsureUploadDirectories(fs) ==
    IF {f \in fs : StartsWith(f, "uploads/products/")} = {}
    THEN IF FallbackFile \in fs THEN fs \cup {SampleFile} ELSE fs
    ELSE fs

\* max: process.env.NODE_ENV === 'production' ? 100 : 1000
RateMax == IF env = "production" THEN RateLimitProduction ELSE RateLimitOther

\* A limiter that throttles the request that reaches the limit.
LimiterOffByOne(r, h) ==
    IF PathFacts[r.path].underApi /\ h >= RateMax
    THEN Response(429, "limiter", "text")
    ELSE Pass

\* app.use('/api/', limiter); h is the count including this request.
Limiter(r, h) ==
    IF PathFacts[r.path].underApi /\ h > RateMax
    THEN Response(429, "limiter", "text")
    ELSE Pass

\* app.use(cors(corsOptions)) with preflightContinue: false and
\* optionsSuccessStatus: 204: an OPTIONS request ends here.
Cors(r) ==
    IF r.method = "OPTIONS" THEN Response(204, "cors", "empty") ELSE Pass

\* express.static(root, {fallthrough: true}) below a mount: GET and HEAD only,
\* and next() when the file is not there.
Static(r, mounted, file, by) ==
    IF mounted /\ IsGet(r) /\ file \in files
    THEN Response(200, by, "file")
    ELSE Pass

\* An uploads static middleware with fallthrough: false.
UploadsStaticNoFallthrough(r) ==
    IF PathFacts[r.path].underUploads
    THEN IF IsGet(r) /\ PathFacts[r.path].uploadsFile \in files
         THEN Response(200, "uploadsStatic", "file")
         ELSE Response(404, "uploadsStatic", "text")
    ELSE Pass

\* app.use('/uploads', uploadCorsMiddleware, staticFileDebugMiddleware, express.static(...))
UploadsStatic(r) ==
    Static(r, PathFacts[r.path].underUploads, PathFacts[r.path].uploadsFile,
           "uploadsStatic")

\* A fallback handler that sends the fallback file without looking for it.
UploadsFallbackUnchecked(r) ==
    IF PathFacts[r.path].fallbackImage
    THEN Response(200, "uploadsFallback", "image/svg+xml")
    ELSE Pass

\* app.use('/uploads/:type/:filename', ...)
UploadsFallback(r) ==
    IF PathFacts[r.path].fallbackImage /\ FallbackFile \in files
    THEN Response(200, "uploadsFallback", "image/svg+xml")
    ELSE Pass

\* app.use('/public', express.static(...))
PublicStatic(r) ==
    Static(r, PathFacts[r.path].underPublic, PathFacts[r.path].publicFile,
           "publicStatic")

\* app.get('/favicon.ico', ...)
Favicon(r) ==
    IF IsGet(r) /\ PathFacts[r.path].isFavicon
    THEN IF "public/favicon.ico" \in files
         THEN Response(200, "favicon", "file")
         ELSE Response(204, "favicon", "empty")
    ELSE Pass

\* app.use('/api/<name>', <name>Routes): the sub-router answers when it has a
\* route for the request and passes it on when not.
ApiRouters(r) ==
    IF PathFacts[r.path].underRouter /\ r.routed
    THEN Response(200, "apiRouter", "router")
    ELSE Pass

\* The error-handling middleware: a JSON error response with the error's status.
ErrorHandler(statusCode, by) == Response(statusCode, by, "json_error")

\* app.use(express.static(clientBuildPath, {index: 'index.html', ...}))
ClientStatic(r) ==
    IF IsGet(r)
    THEN IF r.path = "/" /\ "/index.html" \in BuildFiles
         THEN Response(200, "clientStatic", "index_html")
         ELSE IF r.path \in BuildFiles
              THEN Response(200, "clientStatic",
                            IF r.path = "/index.html" THEN "index_html" ELSE "file")
              ELSE Pass
    ELSE Pass

\* A catch-all that sends the React app for API URLs as well.
CatchAllNoApiCheck(r) ==
    IF IsGet(r)
    THEN IF "/index.html" \in BuildFiles
         THEN Response(200, "catchAll", "index_html")
         ELSE ErrorHandler(404, "catchAll")
    ELSE Pass

\* app.get('*', ...): res.sendFile(index.html) unless req.url starts with
\* '/api'; a missing index.html is sendFile's error, passed to the error handler.
CatchAll(r) ==
    IF IsGet(r) /\ ~PathFacts[r.path].apiUrl
    THEN IF "/index.html" \in BuildFiles
         THEN Response(200, "catchAll", "index_html")
         ELSE ErrorHandler(404, "catchAll")
    ELSE Pass

\* app.get('/', ...) of a production server without a client build.
RootHtml(r) ==
    IF IsGet(r) /\ PathFacts[r.path].isRoot
    THEN Response(200, "rootHtml", "html")
    ELSE Pass

\* if (process.env.NODE_ENV === 'production') { ... }
ProductionBlock(r) ==
    IF env = "production"
    THEN IF clientBuild # "none"
         THEN IF ClientStatic(r) # Pass THEN ClientStatic(r) ELSE CatchAll(r)
         ELSE RootHtml(r)
    ELSE Pass

\* app.get('/health', ...)
Health(r) ==
    IF IsGet(r) /\ PathFacts[r.path].isHealth
    THEN Response(200, "health", "health_json")
    ELSE Pass

\* The 404 handler: next(error) with error.statusCode = 404.
NotFound(r) == ErrorHandler(404, "notFound")

\* The middleware and routes of the app, in registration order; h is the
\* limiter's count with this request.
Middleware(i, r, h) ==
    CASE i = 1 -> Limiter(r, h)
      [] i = 2 -> Cors(r)
      [] i = 3 -> UploadsStatic(r)
      [] i = 4 -> UploadsFallback(r)
      [] i = 5 -> PublicStatic(r)
      [] i = 6 -> Favicon(r)
      [] i = 7 -> ApiRouters(r)
      [] i = 8 -> ProductionBlock(r)
      [] i = 9 -> Health(r)
      [] OTHER -> NotFound(r)

\* The request goes down the chain from entry i until a middleware answers.
RECURSIVE Chain(_, _, _)
Chain(i, r, h) ==
    LET answer == Middleware(i, r, h) IN
    IF answer # Pass THEN answer ELSE Chain(i + 1, r, h)

Dispatch(r, h) == Chain(1, r, h)

RouteInit ==
    /\ server = "listening"
    /\ db = "connected"
    /\ conns = 0
    /\ closeCbs = <<>>
    /\ timers = {}
    /\ exitCode = NotExited
    /\ exitVia = "none"
    /\ signalled = FALSE
    /\ crashed = FALSE
    /\ httpCloseCalled = FALSE
    /\ shutdownCbFired = FALSE
    /\ dbCloseCalled = FALSE
    /\ sinceSignal = 0
    /\ sinceClose = 0
    /\ env \in Envs
    /\ clientBuild \in {"none", "noindex", "full"}
    /\ \E fs \in SUBSET {FallbackFile, ProductFile} : files = EnsureUploadDirectories(fs)
    /\ hits \in {0} \cup {h \in 0..RateMax : h >= RateMax - NearLimit}
    /\ windows = 0
    /\ served = 0
    /\ req = NoRequest
    /\ resp = NoResponse

\* The server handles one request of the client.
HandleRequest ==
    /\ served < MaxRequests
    /\ \E r \in Requests :
         LET h == IF PathFacts[r.path].underApi THEN hits + 1 ELSE hits IN
         /\ hits' = h
         /\ req' = r
         /\ resp' = Dispatch(r, h)
    /\ served' = served + 1
    /\ UNCHANGED <<env, clientBuild, files, windows>>
    /\ UNCHANGED lifeVars

\* windowMs (15 minutes) has passed: the limiter's store is reset.  The last
\* request was answered long ago.
WindowExpire ==
    /\ windows < MaxWindows
    /\ windows' = windows + 1
    /\ hits' = 0
    /\ req' = NoRequest
    /\ resp' = NoResponse
    /\ UNCHANGED <<env, clientBuild, files, served>>
    /\ UNCHANGED lifeVars

RouteNext ==
    \/ HandleRequest
    \/ WindowExpire

RouteSpec == RouteInit /\ [][RouteNext]_vars

\* The process starts; app.js has been loaded for one configuration, and no
\* request is handled in the lifecycle's behaviours.
Init ==
    /\ LifeInit
    /\ env = "production"
    /\ clientBuild = "none"
    /\ files = {}
    /\ hits = 0
    /\ windows = 0
    /\ served = 0
    /\ req = NoRequest
    /\ resp = NoResponse

Next ==
    \/ ConnectDBResolved
    \/ ConnectDBRejected
    \/ ClientConnect
    \/ ClientDisconnect
    \/ Signal
    \/ Crash
    \/ ServerCloseEvent
    \/ DBCloseComplete
    \/ TimerFire
    \/ Tick

Spec == Init /\ [][Next]_vars

\* The event loop runs a callback that is due: the 'close' event of a drained
\* server, a timer that has expired; and time passes.  Clients and the database
\* are under no obligation.
FairSpec ==
    /\ Spec
    /\ WF_vars(ServerCloseEvent)
    /\ WF_vars(TimerFire)
    /\ WF_vars(Tick)

(***************************************************************************)
(* Claims about the process lifecycle.                                     *)
(***************************************************************************)

C2_Original == crashed ~> (exitCode = 1)

\* C3 (as stated): when the process has exited after a crash event, a close of
\* the HTTP server and a close of the database connection were both initiated.
C3_Original ==
    (crashed /\ ~Running) => (httpCloseCalled /\ dbCloseCalled)

\* C3 (amended): when the process has exited after a crash event, a close of the
\* HTTP server was initiated; a close of the database connection is initiated
\* only by the close callback of a SIGTERM/SIGINT shutdown.
C3_CrashClosesHttpOnly ==
    /\ (crashed /\ ~Running) => httpCloseCalled
    /\ dbCloseCalled => (signalled /\ shutdownCbFired)

\* C3 witness: the process exited after a crash and no database close was initiated.
C3_Witness ==
    crashed /\ ~Running /\ httpCloseCalled /\ ~dbCloseCalled

C10_ShutdownOrdering ==
    /\ exitCode = 0 =>
          \/ server = "undefined"
          \/ (server = "closed" /\ shutdownCbFired /\ dbCloseCalled /\ db = "closed")
    /\ dbCloseCalled => (shutdownCbFired /\ server = "closed")
    /\ db \in {"closing", "closed"} => dbCloseCalled
    /\ exitVia = "forced" => exitCode = 1

\* C10 witness: a graceful exit 0 after the HTTP server and the database closed.
C10_Witness ==
    exitCode = 0 /\ server = "closed" /\ db = "closed"

(***************************************************************************)
(* Claims about the middleware chain.                                      *)
(***************************************************************************)
Handled == req # NoRequest

Facts == PathFacts[req.path]

ProductionBuildFound == env = "production" /\ clientBuild # "none"

\* The uploads or public static middleware has the requested file.
StaticFileServed ==
    /\ IsGet(req)
    /\ \/ Facts.underUploads /\ Facts.uploadsFile \in files
       \/ Facts.underPublic /\ Facts.publicFile \in files

\* The client build has the requested file.
BuildFileServed ==
    /\ ProductionBuildFound
    /\ IsGet(req)
    /\ \/ req.path \in BuildFiles
       \/ req.path = "/" /\ "/index.html" \in BuildFiles

\* The request matches a route, a static file or a sub-router mount, the
\* catch-all GET '*' aside.
MatchesRoute ==
    \/ StaticFileServed
    \/ BuildFileServed
    \/ Facts.fallbackImage
    \/ Facts.underRouter
    \/ IsGet(req) /\ (Facts.isFavicon \/ Facts.isHealth)
    \/ IsGet(req) /\ Facts.isRoot /\ env = "production" /\ clientBuild = "none"

\* The limiter has counted more requests of the client than it allows.
LimitExceeded == hits > (IF env = "production" THEN 100 ELSE 1000)

NotFoundResponse == Response(404, "notFound", "json_error")

FallbackResponse == Response(200, "uploadsFallback", "image/svg+xml")

\* C4 (as stated): GET /health is answered 200 by the health route, with the
\* body whose status is 'success', in every configuration.
C4_Original ==
    (Handled /\ req.method = "GET" /\ req.path = "/health") =>
        resp = Response(200, "health", "health_json")

C6_Original ==
    (Handled /\ LimitExceeded) => resp = Response(429, "limiter", "text")

\* C6 (amended): a request is answered 429 by the limiter, and reaches nothing
\* else, exactly when its path is under /api and the client has already made
\* the allowed number of requests (100 in production, 1000 otherwise) under
\* /api in the window; only requests under /api are counted, and the count
\* goes back to 0 only when the window expires.
C6_ApiRequestsThrottled ==
    [][/\ served' # served =>
            /\ (resp'.by = "limiter") <=>
                   (/\ PathFacts[req'.path].underApi
                    /\ hits >= (IF env = "production" THEN 100 ELSE 1000))
            /\ resp'.by = "limiter" => resp' = Response(429, "limiter", "text")
            /\ hits' = IF PathFacts[req'.path].underApi THEN hits + 1 ELSE hits
       /\ hits' < hits => (hits' = 0 /\ windows' = windows + 1)]_vars

\* C6 witness: a throttled /api request in development, after 1000 requests.
C6_Witness ==
    /\ Handled /\ env = "development" /\ hits = 1001
    /\ resp = Response(429, "limiter", "text")

C8_Original ==
    (Handled /\ env = "production") =>
        /\ (~Facts.underApi /\ ~MatchesRoute) => resp.kind = "index_html"
        /\ Facts.apiUrl => resp.kind # "index_html"

\* C8 (amended): on a production server with a client build that holds
\* index.html, every GET or HEAD whose URL does not start with "/api" and that
\* no earlier middleware or route answers gets index.html; a URL that starts
\* with "/api" never does, and nothing else serves index.html.
C8_IndexForProductionGets ==
    Handled =>
        /\ (/\ env = "production"
            /\ clientBuild = "full"
            /\ IsGet(req)
            /\ ~Facts.apiUrl
            /\ ~StaticFileServed
            /\ ~(Facts.fallbackImage /\ FallbackFile \in files)
            /\ ~Facts.isFavicon
            /\ req.path \notin (BuildFiles \ {"/index.html"}))
               => (resp.status = 200 /\ resp.kind = "index_html")
        /\ Facts.apiUrl => resp.kind # "index_html"
        /\ resp.kind = "index_html" =>
               (env = "production" /\ clientBuild = "full" /\ IsGet(req))

\* C8 witness: the catch-all answers an unmatched GET with index.html.
C8_Witness ==
    /\ Handled /\ req.method = "GET" /\ req.path = "/about"
    /\ resp = Response(200, "catchAll", "index_html")

====
